---- MODULE Spec2Model ----
(***************************************************************************)
(* Call-session state machine of the browser call client (webrtc.js and    *)
(* socket.js, concatenated in src/unnamed/part_000).                       *)
(*                                                                         *)
(* The program is single-threaded: a handler runs from an event to its     *)
(* next real `await` (a browser primitive, a timer, a network call)        *)
(* without interruption.  One action of this module is one such run.  An   *)
(* `await` of an already finished async function (createPeerConnection,    *)
(* handleIncomingCall with media present, ...) only yields to microtasks   *)
(* and is part of the run.  A suspended handler is a record in `procs`.    *)
(*                                                                         *)
(* The module-level variables of the two source modules are the state; a   *)
(* run is computed on a snapshot record (St) by operators named after the  *)
(* source functions and written back by Commit.  The fields out, err and   *)
(* ho of a snapshot describe the run itself (messages emitted, an error    *)
(* nobody caught, the Call Record status at each call of handleOffer) and  *)
(* are not state.                                                          *)
(***************************************************************************)
EXTENDS Integers, Sequences, FiniteSets, TLC

\* ------------------------------------------------------------------ bounds
MaxCallId == 1      \* call ids carried by signaling events
MaxInviteId == 2    \* call ids carried by invites where calls replace one another
MaxHandles == 3     \* RTCPeerConnection objects alive or still referenced
MaxProcs == 2       \* handlers suspended at an await at the same time
MaxCands == 1       \* remote candidates delivered in one behaviour
MaxTimers == 1      \* auto-reject timers armed at the same time for one call id
MaxLocalCands == 2  \* local candidates held in the candidate buffer
MaxPolls == 2       \* gathering polls still scheduled after their wait has ended
MaxAnswers == 2     \* answer messages counted in one behaviour

CallIds == 1..MaxCallId
InviteIds == 1..MaxInviteId
AllCallIds == CallIds \cup InviteIds
Handles == 1..MaxHandles
Slots == 1..MaxProcs
Cands == 1..MaxCands

Roles == {"USER", "STAFF"}
\* data.from of an offer: the caller, or the staff member
Peers == {"alice", "staff"}
None == "none"

VARIABLES
    role,               \* getUserInfo().role
    peerConnection,     \* webrtc.js: the current handle, 0 = null
    pcs,                \* every RTCPeerConnection object by id
    localStream,        \* webrtc.js: TRUE = a MediaStream is held
    currentCall,        \* webrtc.js: the Call Record, NoCall = null
    currentCallId,      \* socket.js: 0 = null
    pendingOffers,      \* socket.js: Map callId -> offer
    pendingCandidates,  \* socket.js: Map callId -> array of candidates
    autoRejectTimeouts, \* socket.js: Map callId -> timer; TRUE = the call id has an entry
    timers,             \* armed auto-reject timers by the call id their callback closes over
    candTimers,         \* armed 1 s timers of handleIceCandidate: candidate -> how many
    procs,              \* suspended handlers
    nextCand,           \* next fresh remote candidate
    candHist,           \* history: what happened to each remote candidate
    iceCandidateBuffer, \* webrtc.js: length of the array of buffered local candidates
    callStarted,        \* history: the call ids a call-start was sent for
    polls,              \* webrtc.js: checkState polls scheduled after their wait has ended
    heard               \* history, kept where on: invites and offers received, answers sent

vars == <<role, peerConnection, pcs, localStream, currentCall, currentCallId,
          pendingOffers, pendingCandidates, autoRejectTimeouts, timers,
          candTimers, procs, nextCand, candHist, iceCandidateBuffer, callStarted,
          polls, heard>>

\* ------------------------------------------------------------- data shapes
NoCall == [id |-> 0, userId |-> None, staffUserId |-> None, status |-> None]

FreePc == [st |-> "free", sig |-> "closed", remote |-> None, local |-> None,
           cands |-> {}, ice |-> "new", gath |-> "new"]
\* a closed connection: nothing the program does reads its fields again
ClosedPc == [FreePc EXCEPT !.st = "closed"]
\* new RTCPeerConnection(peerConfig)
NewPc == [st |-> "live", sig |-> "stable", remote |-> None, local |-> None,
          cands |-> {}, ice |-> "new", gath |-> "new"]

\* n: retryCount of a suspended sendIceCandidate
Idle == [pc |-> "idle", callId |-> 0, from |-> None, offer |-> None, h |-> 0,
         c |-> 0, arr |-> <<>>, att |-> FALSE, ret |-> None, n |-> 0]

\* recv: how the ice-candidate event disposed of the candidate; nopc: no handle
\* existed when it was received
NoHist == [recv |-> None, nopc |-> FALSE, deferred |-> FALSE, applied |-> FALSE]

Min(S) == CHOOSE x \in S : \A y \in S : x <= y

\* the snapshot a run works on
St == [role |-> role, peerConnection |-> peerConnection, pcs |-> pcs,
       localStream |-> localStream, currentCall |-> currentCall,
       currentCallId |-> currentCallId, pendingOffers |-> pendingOffers,
       pendingCandidates |-> pendingCandidates,
       autoRejectTimeouts |-> autoRejectTimeouts, timers |-> timers,
       candTimers |-> candTimers, procs |-> procs, nextCand |-> nextCand,
       candHist |-> candHist, iceCandidateBuffer |-> iceCandidateBuffer,
       callStarted |-> callStarted, polls |-> polls, heard |-> heard,
       out |-> <<>>, err |-> FALSE, ho |-> {}, ok |-> TRUE,
       shown |-> <<>>, media |-> None, invite |-> 0, offer |-> 0]

\* socket.emit(type, {callId, ...})
Emit(s, type, id) == [s EXCEPT !.out = Append(@, [type |-> type, callId |-> id])]
\* showStatus(message, isError): the messages the claims read are recorded
Show(s, msg) == [s EXCEPT !.shown = Append(@, msg)]
\* an exception or promise rejection that no try block of the program catches
Uncaught(s) == [s EXCEPT !.err = TRUE]
\* the handler in slot i has returned
Done(s, i) == [s EXCEPT !.procs[i] = Idle]

HasCall(s) == s.currentCall.id # 0
HasPc(s) == s.peerConnection # 0
CurPc(s) == s.pcs[s.peerConnection]

\* ------------------------------------------------- the negotiation primitive
\* RTCPeerConnection.close()
ClosePc(s, h) == [s EXCEPT !.pcs[h] = ClosedPc]

Live(s, h) == h # 0 /\ s.pcs[h].st = "live"

\* setRemoteDescription(desc) is accepted by the handle
CanSetRemote(s, h, kind) ==
    /\ Live(s, h)
    /\ IF kind = "offer" THEN s.pcs[h].sig \in {"stable", "have-remote-offer"}
       ELSE s.pcs[h].sig = "have-local-offer"
SetRemote(s, h, kind) ==
    [s EXCEPT !.pcs[h].remote = kind,
              !.pcs[h].sig = IF kind = "offer" THEN "have-remote-offer" ELSE "stable"]

\* (fault) a handle that accepts a local description in any signaling state
CanSetLocal_anyState(s, h, kind) == Live(s, h)

\* setLocalDescription(desc) is accepted by the handle
CanSetLocal(s, h, kind) ==
    /\ Live(s, h)
    /\ IF kind = "offer" THEN s.pcs[h].sig \in {"stable", "have-local-offer"}
       ELSE s.pcs[h].sig = "have-remote-offer"
SetLocal(s, h, kind) ==
    [s EXCEPT !.pcs[h].local = kind,
              !.pcs[h].sig = IF kind = "offer" THEN "have-local-offer" ELSE "stable",
              !.pcs[h].gath = IF @ = "new" THEN "gathering" ELSE @]

\* createAnswer() needs a remote offer
CanCreateAnswer(s, h) == Live(s, h) /\ s.pcs[h].sig = "have-remote-offer"

\* addIceCandidate(c) needs a remote description
CanAddIce(s, h) == Live(s, h) /\ s.pcs[h].remote # None
AddIce(s, h, c) ==
    [s EXCEPT !.pcs[h].cands = @ \cup {c}, !.candHist[c].applied = TRUE]

\* How an awaited primitive called on handle h ends: "ok", "fail" (the promise
\* rejects) or "hang" (the promise of a closed connection never settles).
Outcomes(s, h, can, mayFail) ==
    IF ~Live(s, h) THEN {"fail", "hang"}
    ELSE IF ~can THEN {"fail"}
    ELSE IF mayFail THEN {"ok", "fail"} ELSE {"ok"}

\* ------------------------------------------------------------- webrtc.js
\* (fault) createPeerConnection that forgets the handle it replaces without closing it
createPeerConnection_keepOld(s) ==
    LET free == {h \in Handles : s.pcs[h].st = "free"}
    IN  IF free = {} THEN [s EXCEPT !.ok = FALSE]
        ELSE [s EXCEPT !.pcs[Min(free)] = NewPc, !.peerConnection = Min(free)]

\* createPeerConnection: close the existing handle, build a new one.  Its only
\* await (initializeMedia for a stream without tracks) is never taken: a stream
\* from getUserMedia has a track.
createPeerConnection(s) ==
    LET s1 == IF HasPc(s)
              THEN [ClosePc(s, s.peerConnection) EXCEPT !.peerConnection = 0]
              ELSE s
        free == {h \in Handles : s1.pcs[h].st = "free"}
    IN  IF free = {} THEN [s1 EXCEPT !.ok = FALSE]
        ELSE [s1 EXCEPT !.pcs[Min(free)] = NewPc, !.peerConnection = Min(free)]

\* (fault) cleanup that closes the handle without looking whether there is one
cleanup_unguarded(s) ==
    LET s1 == IF HasPc(s)
              THEN [ClosePc(s, s.peerConnection) EXCEPT !.peerConnection = 0]
              ELSE Uncaught(s)           \* null.close(): TypeError
    IN  [s1 EXCEPT !.localStream = FALSE, !.currentCall = NoCall,
                   !.iceCandidateBuffer = 0]

\* (fault) cleanup that drops the handle without closing it
cleanup_noClose(s) ==
    [s EXCEPT !.peerConnection = 0, !.localStream = FALSE, !.currentCall = NoCall,
              !.iceCandidateBuffer = 0]

\* cleanup
cleanup(s) ==
    LET s1 == IF HasPc(s)
              THEN [ClosePc(s, s.peerConnection) EXCEPT !.peerConnection = 0]
              ELSE s
    IN  [s1 EXCEPT !.localStream = FALSE, !.currentCall = NoCall,
                   !.iceCandidateBuffer = 0]

\* the outcomes of one getUserMedia request
MediaResults == {"ok", "fail"}

\* (fault) initializeMedia without the audio-only request
initializeMedia_noFallback(s, both, audioOnly) ==
    IF both = "ok" THEN [s EXCEPT !.localStream = TRUE, !.media = "audio+video"]
    ELSE Show([s EXCEPT !.media = "throw"], "Error accessing camera/microphone")

\* initializeMedia from its first getUserMedia on: both and audioOnly are the
\* outcomes of the combined and of the audio-only request; media is what the
\* call returns ("throw": it rethrows).  The stream is stored by the request
\* that resolves, so a failure stores nothing.
initializeMedia(s, both, audioOnly) ==
    IF both = "ok" THEN [s EXCEPT !.localStream = TRUE, !.media = "audio+video"]
    ELSE IF audioOnly = "ok"
    THEN Show([s EXCEPT !.localStream = TRUE, !.media = "audio"],
              "Video unavailable - audio only mode")
    ELSE Show([s EXCEPT !.media = "throw"], "Error accessing camera/microphone")

\* what the caller of initializeMedia sees
MediaResult(s) == IF s.media = "throw" THEN "fail" ELSE "ok"

\* setCurrentCall(call) with a new Call Record
setCurrentCall(s, call) == [s EXCEPT !.currentCall = call]

\* suspend the handler of slot i at label pc, awaiting a primitive called on
\* handle h (0: a timer, media or the network) for candidate c
Susp(s, i, pc, h, c) ==
    [s EXCEPT !.procs[i].pc = pc, !.procs[i].h = h, !.procs[i].c = c]
\* the handler of slot i runs again
Wake(s, i) == Susp(s, i, "run", 0, 0)
Running(s, i) == s.procs[i].pc = "run"

\* (fault) handleIceCandidate that adds the candidate whatever the remote description
handleIceCandidate_noRemoteCheck(s, i, c) ==
    IF ~HasPc(s) THEN s
    ELSE Susp(s, i, "ic_add", s.peerConnection, c)

\* handleIceCandidate(data) up to its await; slot i stays "run" when it returned
handleIceCandidate(s, i, c) ==
    IF ~HasPc(s) THEN s
    ELSE IF CurPc(s).remote = None
    THEN [s EXCEPT !.candTimers[c] = @ + 1, !.candHist[c].deferred = TRUE]
    ELSE Susp(s, i, "ic_add", s.peerConnection, c)

\* acceptCall: the catch block
acceptCall_catch(s, i) == Done(createPeerConnection(s), i)

\* acceptCall from "Check if we have a peer connection and remote description"
acceptCall_negotiate(s, i) ==
    IF ~HasPc(s) THEN Done(s, i)
    ELSE IF CurPc(s).sig = "stable"
    THEN Done(IF /\ CurPc(s).ice \in {"connected", "completed"}
                 /\ HasCall(s) /\ s.currentCall.status # "CONNECTED"
              THEN Emit(s, "call-start", s.currentCall.id) ELSE s, i)
    ELSE IF CurPc(s).remote # None /\ CurPc(s).sig = "have-remote-offer"
    THEN Susp(s, i, "ac_createAnswer", s.peerConnection, 0)
    ELSE Done(s, i)

\* acceptCall after processPendingOfferDirectly returned offerProcessed
acceptCall_afterDirect(s, i, offerProcessed) ==
    IF ~offerProcessed /\ ~HasCall(s) THEN acceptCall_catch(s, i)
    ELSE LET s1 == IF offerProcessed THEN s
                   ELSE Emit(s, "process-pending-offer", s.currentCall.id)
         IN  IF ~s1.localStream THEN Susp(s1, i, "ac_media", 0, 0)
             ELSE acceptCall_negotiate(s1, i)

\* acceptCall resumed after initializeMedia
acceptCall_media(s, i, m) ==
    IF m = "ok" THEN acceptCall_negotiate([s EXCEPT !.localStream = TRUE], i)
    ELSE acceptCall_catch(s, i)

\* acceptCall resumed after createAnswer
acceptCall_createAnswer(s, i, res) ==
    IF res = "hang" THEN Done(s, i)
    ELSE IF res = "fail" \/ ~HasPc(s) THEN acceptCall_catch(s, i)
    ELSE Susp(s, i, "ac_setLocal", s.peerConnection, 0)

\* acceptCall resumed after setLocalDescription(answer)
acceptCall_setLocal(s, i, h, res) ==
    IF res = "hang" THEN Done(s, i)
    ELSE IF res = "fail" THEN acceptCall_catch(s, i)
    ELSE LET s1 == SetLocal(s, h, "answer")
         IN  IF ~HasCall(s1) THEN acceptCall_catch(s1, i)
             ELSE Done(Emit(s1, "answer", s1.currentCall.id), i)

\* ------------------------------------------------ socket.js: candidate replay
\* pendingCandidates.get(id).push(data); a replay loop iterating that array sees it
PushPendingCandidate(s, id, c) ==
    [s EXCEPT !.pendingCandidates[id] = Append(@, c),
              !.procs = [j \in DOMAIN @ |->
                            IF @[j].att /\ @[j].callId = id
                            THEN [@[j] EXCEPT !.arr = Append(@, c)] ELSE @[j]]]

\* pendingCandidates.delete(id); a replay loop keeps the array it iterates
DeletePendingCandidates(s, id) ==
    [s EXCEPT !.pendingCandidates[id] = <<>>,
              !.procs = [j \in DOMAIN @ |->
                            IF @[j].att /\ @[j].callId = id
                            THEN [@[j] EXCEPT !.att = FALSE] ELSE @[j]]]

\* what follows the replay of pending candidates
AfterReplay(s, i) ==
    IF s.procs[i].ret = "direct" THEN acceptCall_afterDirect(s, i, TRUE)
    ELSE Done(s, i)

\* for (const candidate of candidates) await handleIceCandidate(candidate);
\* pendingCandidates.delete(callId)
RECURSIVE ReplayLoop(_, _)
ReplayLoop(s, i) ==
    LET p == s.procs[i] IN
    IF ~Running(s, i) THEN s
    ELSE IF p.arr = <<>>
    THEN AfterReplay(DeletePendingCandidates(
                        [s EXCEPT !.procs[i].att = FALSE], p.callId), i)
    ELSE ReplayLoop(handleIceCandidate(
                        [s EXCEPT !.procs[i].arr = Tail(@)], i, Head(p.arr)), i)

\* const candidates = pendingCandidates.get(callId) || []; if (candidates.length > 0) ...
ReplayStart(s, i) ==
    LET arr == s.pendingCandidates[s.procs[i].callId] IN
    IF arr = <<>> THEN AfterReplay(s, i)
    ELSE ReplayLoop([s EXCEPT !.procs[i].arr = arr, !.procs[i].att = TRUE], i)

\* handleIceCandidate resumed after addIceCandidate; its try block catches a rejection
handleIceCandidate_add(s, i, h, c, res) ==
    IF res = "hang" THEN Done(s, i)
    ELSE LET s1 == IF res = "ok" THEN AddIce(s, h, c) ELSE s
         IN  IF s1.procs[i].ret = "evt" THEN Done(s1, i) ELSE ReplayLoop(s1, i)

\* ------------------------------------------------- webrtc.js: handleOffer
\* what the caller of handleOffer does when it returns
AfterHandleOffer(s, i) ==
    IF s.procs[i].ret = "offerEvt"
    THEN Done(Uncaught(s), i)    \* bufferedIceCandidates is not defined: ReferenceError
    ELSE ReplayStart(s, i)

\* (fault) handleOffer whose catch block only reports the error
handleOffer_catch_reportOnly(s, i) == AfterHandleOffer(s, i)

\* handleOffer: the catch block
handleOffer_catch(s, i) ==
    LET s1 == IF HasPc(s)
              THEN [ClosePc(s, s.peerConnection) EXCEPT !.peerConnection = 0]
              ELSE s
    IN  AfterHandleOffer(createPeerConnection(s1), i)

\* handleOffer resumed after the candidate-gathering wait: send the answer.
\* With no handle the 100 ms poll has thrown outside every try block before
\* the 5 s timer resumes handleOffer.
handleOffer_send(s, i) ==
    IF ~HasPc(s) THEN handleOffer_catch(Uncaught(s), i)
    ELSE IF ~HasCall(s) THEN handleOffer_catch(s, i)
    ELSE AfterHandleOffer(Emit(s, "answer", s.currentCall.id), i)

\* the 5 s timer of the gathering wait fires: the promise resolves and
\* handleOffer goes on; a checkState still scheduled (polling) stays scheduled
iceGatheringTimeout(s, i, polling) ==
    handleOffer_send([s EXCEPT !.polls = IF polling THEN @ + 1 ELSE @], i)

\* checkState, the 100 ms poll of the gathering wait of slot i
checkState(s, i) ==
    IF ~HasPc(s)                 \* null.iceGatheringState: TypeError, no next poll
    THEN Susp(Uncaught(s), i, "ho_timeout", 0, 0)
    ELSE IF CurPc(s).gath = "complete" THEN handleOffer_send(s, i)
    ELSE Susp(s, i, "ho_gather", 0, 0)

\* checkState of a wait that has ended by its timer: clearTimeout and resolve
\* do nothing then
checkState_stray(s) ==
    IF ~HasPc(s) THEN [Uncaught(s) EXCEPT !.polls = @ - 1]
    ELSE IF CurPc(s).gath = "complete" THEN [s EXCEPT !.polls = @ - 1]
    ELSE s

\* handleOffer resumed after setLocalDescription(answer); the gathering wait
\* resolves at once when gathering is complete, else it arms the 5 s timer
\* and the poll
handleOffer_setLocal(s, i, h, res) ==
    IF res = "hang" THEN Done(s, i)
    ELSE IF res = "fail" THEN handleOffer_catch(s, i)
    ELSE LET s1 == SetLocal(s, h, "answer")
         IN  IF ~HasPc(s1) THEN handleOffer_catch(s1, i)
             ELSE IF CurPc(s1).gath = "complete" THEN handleOffer_send(s1, i)
             ELSE Susp(s1, i, "ho_gather", 0, 0)

\* handleOffer resumed after createAnswer
handleOffer_createAnswer(s, i, res) ==
    IF res = "hang" THEN Done(s, i)
    ELSE IF res = "fail" \/ ~HasPc(s) THEN handleOffer_catch(s, i)
    ELSE Susp(s, i, "ho_setLocal", s.peerConnection, 0)

\* handleOffer resumed after the 500 ms settle delay
handleOffer_settle(s, i) ==
    IF ~HasPc(s) THEN handleOffer_catch(s, i)
    ELSE Susp(s, i, "ho_createAnswer", s.peerConnection, 0)

\* handleOffer resumed after setRemoteDescription(offer)
handleOffer_setRemote(s, i, h, res) ==
    IF res = "hang" THEN Done(s, i)
    ELSE IF res = "fail" THEN handleOffer_catch(s, i)
    ELSE LET s1 == SetRemote(s, h, "offer")
         IN  IF ~HasPc(s1) THEN handleOffer_catch(s1, i)
             ELSE IF CurPc(s1).sig # "have-remote-offer" THEN AfterHandleOffer(s1, i)
             ELSE Susp(s1, i, "ho_settle", 0, 0)

\* handleOffer from "Create or recreate peer connection"
handleOffer_connect(s, i) ==
    LET s1 == createPeerConnection(s) IN
    IF s1.procs[i].offer # "offer" THEN AfterHandleOffer(s1, i)
    ELSE Susp(s1, i, "ho_setRemote", s1.peerConnection, 0)

\* handleOffer resumed after initializeMedia
handleOffer_media(s, i, m) ==
    IF m = "ok" THEN handleOffer_connect([s EXCEPT !.localStream = TRUE], i)
    ELSE handleOffer_catch(s, i)

\* (fault) handleOffer that applies an offer whoever sent it
handleOffer_noSenderCheck(s, i) ==
    LET s1 == [s EXCEPT !.ho = @ \cup {s.currentCall.status}]
    IN  IF ~HasCall(s1) THEN AfterHandleOffer(s1, i)
        ELSE IF ~s1.localStream THEN Susp(s1, i, "ho_media", 0, 0)
        ELSE handleOffer_connect(s1, i)

\* handleOffer(data), data in slot i, up to its first await
handleOffer(s, i) ==
    LET s1 == [s EXCEPT !.ho = @ \cup {s.currentCall.status}]
        from == s.procs[i].from
    IN  IF ~HasCall(s1) THEN AfterHandleOffer(s1, i)
        ELSE IF s1.role = "USER" /\ from # s1.currentCall.staffUserId
        THEN AfterHandleOffer(s1, i)
        ELSE IF s1.role = "STAFF" /\ from # s1.currentCall.userId
        THEN AfterHandleOffer(s1, i)
        ELSE IF ~s1.localStream THEN Susp(s1, i, "ho_media", 0, 0)
        ELSE handleOffer_connect(s1, i)

\* ------------------------------------------------------- socket.js: offers
\* processPendingOfferDirectly(callId), called by acceptCall in slot i
processPendingOfferDirectly(s, i, callId) ==
    LET pendingOffer == s.pendingOffers[callId] IN
    IF pendingOffer # None
    THEN LET s1 == [s EXCEPT !.pendingOffers[callId] = None] IN
         IF HasCall(s1) /\ s1.currentCall.status = "ACCEPTED"
         THEN handleOffer([s1 EXCEPT !.procs[i].callId = callId,
                                     !.procs[i].offer = pendingOffer,
                                     !.procs[i].from = s1.currentCall.userId,
                                     !.procs[i].ret = "direct"], i)
         ELSE acceptCall_afterDirect(s1, i, FALSE)
    ELSE acceptCall_afterDirect(s, i, FALSE)

\* (fault) socket.on('process-pending-offer') that leaves the entry in the map
OnProcessPendingOffer_noDelete(s, i, callId) ==
    LET pendingOffer == s.pendingOffers[callId] IN
    IF pendingOffer # None
    THEN IF HasCall(s) /\ s.currentCall.status = "ACCEPTED"
         THEN handleOffer([s EXCEPT !.procs[i].callId = callId,
                                    !.procs[i].offer = pendingOffer,
                                    !.procs[i].from = s.currentCall.userId,
                                    !.procs[i].ret = "relay"], i)
         ELSE Done(s, i)
    ELSE Done(s, i)

\* socket.on('process-pending-offer')
OnProcessPendingOffer(s, i, callId) ==
    LET pendingOffer == s.pendingOffers[callId] IN
    IF pendingOffer # None
    THEN LET s1 == [s EXCEPT !.pendingOffers[callId] = None] IN
         IF HasCall(s1) /\ s1.currentCall.status = "ACCEPTED"
         THEN handleOffer([s1 EXCEPT !.procs[i].callId = callId,
                                     !.procs[i].offer = pendingOffer,
                                     !.procs[i].from = s1.currentCall.userId,
                                     !.procs[i].ret = "relay"], i)
         ELSE Done(s1, i)
    ELSE Done(s, i)

\* (fault) socket.on('offer') that hands over every offer of the current call
OnOffer_anyStatus(s, i, callId, from, offer) ==
    IF s.currentCallId = 0
    THEN Done([s EXCEPT !.pendingOffers[callId] = offer], i)
    ELSE IF callId = s.currentCallId /\ HasCall(s)
    THEN LET s1 == IF ~HasPc(s) THEN createPeerConnection(s) ELSE s
         IN  handleOffer([s1 EXCEPT !.procs[i].callId = callId,
                                    !.procs[i].offer = offer,
                                    !.procs[i].from = from,
                                    !.procs[i].ret = "offerEvt"], i)
    ELSE Done([s EXCEPT !.pendingOffers[callId] = offer], i)

\* (fault) socket.on('offer') that parks every offer
OnOffer_alwaysStore(s, i, callId, from, offer) ==
    Done([s EXCEPT !.pendingOffers[callId] = offer], i)

\* socket.on('offer')
OnOffer(s, i, callId, from, offer) ==
    IF s.currentCallId = 0
    THEN Done([s EXCEPT !.pendingOffers[callId] = offer], i)
    ELSE IF callId = s.currentCallId
    THEN IF HasCall(s) /\ s.currentCall.status = "ACCEPTED"
         THEN LET s1 == IF ~HasPc(s) THEN createPeerConnection(s) ELSE s
              IN  handleOffer([s1 EXCEPT !.procs[i].callId = callId,
                                         !.procs[i].offer = offer,
                                         !.procs[i].from = from,
                                         !.procs[i].ret = "offerEvt"], i)
         ELSE Done([s EXCEPT !.pendingOffers[callId] = offer], i)
    ELSE Done([s EXCEPT !.pendingOffers[callId] = offer], i)

\* ------------------------------------------------- webrtc.js: acceptCall
\* acceptCall resumed after import('./socket.js')
acceptCall_import(s, i) ==
    IF ~HasCall(s) THEN acceptCall_catch(s, i)
    ELSE processPendingOfferDirectly(s, i, s.currentCall.id)

\* acceptCall up to its first await
acceptCall(s, i) ==
    IF ~HasCall(s) THEN Done(s, i)
    ELSE LET s1 == Emit(Emit(s, "join-call", s.currentCall.id),
                        "call-accept", s.currentCall.id)
         IN  Susp([s1 EXCEPT !.currentCall.status = "ACCEPTED"],
                  i, "ac_import", 0, 0)

\* ------------------------------------------------ webrtc.js: handleAnswer
\* handleAnswer resumed after setRemoteDescription(answer); a rejection is caught
handleAnswer_setRemote(s, i, h, res) ==
    Done(IF res = "ok" THEN SetRemote(s, h, "answer") ELSE s, i)

\* (fault) handleAnswer that applies the answer whatever the signaling state
handleAnswer_noStableCheck(s, i) ==
    LET s1 == IF ~HasPc(s) THEN createPeerConnection(s) ELSE s IN
    IF ~HasPc(s1) THEN Done(s1, i)
    ELSE Susp(s1, i, "ha_setRemote", s1.peerConnection, 0)

\* handleAnswer(data) up to its await
handleAnswer(s, i) ==
    LET s1 == IF ~HasPc(s) THEN createPeerConnection(s) ELSE s IN   \* ensurePeerConnection
    IF ~HasPc(s1) THEN Done(s1, i)
    ELSE IF CurPc(s1).sig = "stable" THEN Done(s1, i)
    ELSE Susp(s1, i, "ha_setRemote", s1.peerConnection, 0)

\* --------------------------------------------------- webrtc.js: startCall
\* startCall: the catch block
startCall_catch(s, i) == Done(cleanup(Show(s, "Failed to start call")), i)

\* (fault) startCall that sends the offer before it joins the call room
startCall_fetch_offerFirst(s, i, r, callId, status) ==
    IF r = "busy" THEN Done(Show(s, "Staff is currently busy"), i)
    ELSE IF r = "failure" THEN startCall_catch(s, i)
    ELSE LET call == [id |-> callId, userId |-> "alice", staffUserId |-> "staff",
                      status |-> status]
         IN  Done(Emit(Emit(setCurrentCall(s, call), "offer", callId),
                       "join-call", callId), i)

\* (fault) startCall that throws on every unsuccessful response, busy or not
startCall_fetch_busyThrows(s, i, r, callId, status) ==
    IF r \in {"busy", "failure"} THEN startCall_catch(s, i)
    ELSE LET call == [id |-> callId, userId |-> "alice", staffUserId |-> "staff",
                      status |-> status]
         IN  Done(Emit(Emit(setCurrentCall(s, call), "join-call", callId),
                       "offer", callId), i)

\* startCall resumed after the call-initiate request; r is the response, callId
\* and status are data.data.call.id and data.data.call.status of a success
startCall_fetch(s, i, r, callId, status) ==
    IF r = "busy" THEN Done(Show(s, "Staff is currently busy"), i)
    ELSE IF r = "failure" THEN startCall_catch(s, i)
    ELSE LET call == [id |-> callId, userId |-> "alice", staffUserId |-> "staff",
                      status |-> status]
         IN  Done(Emit(Emit(setCurrentCall(s, call), "join-call", callId),
                       "offer", callId), i)

\* startCall resumed after setLocalDescription(offer)
startCall_setLocal(s, i, h, res) ==
    IF res = "hang" THEN Done(s, i)
    ELSE IF res = "fail" THEN startCall_catch(s, i)
    ELSE Susp(SetLocal(s, h, "offer"), i, "sc_fetch", 0, 0)

\* startCall resumed after createOffer
startCall_createOffer(s, i, res) ==
    IF res = "hang" THEN Done(s, i)
    ELSE IF res = "fail" \/ ~HasPc(s) THEN startCall_catch(s, i)
    ELSE Susp(s, i, "sc_setLocal", s.peerConnection, 0)

\* startCall from "Create peer connection"
startCall_connect(s, i) ==
    LET s1 == createPeerConnection(s) IN
    Susp(s1, i, "sc_createOffer", s1.peerConnection, 0)

\* startCall resumed after initializeMedia
startCall_media(s, i, m) ==
    IF m = "ok" THEN startCall_connect([s EXCEPT !.localStream = TRUE], i)
    ELSE startCall_catch(s, i)

\* startCall with a staff member selected, up to its first await after the import
startCall(s, i) ==
    IF ~s.localStream THEN Susp(s, i, "sc_media", 0, 0)
    ELSE startCall_connect(s, i)

\* ------------------------------------------- webrtc.js: rejectCall, endCall
\* (fault) rejectCall that notifies the counterpart and keeps everything
rejectCall_noCleanup(s) ==
    IF ~HasCall(s) THEN s
    ELSE Emit(s, "call-reject", s.currentCall.id)

rejectCall(s) ==
    IF ~HasCall(s) THEN s
    ELSE cleanup(Emit(s, "call-reject", s.currentCall.id))

endCall(s) ==
    IF ~HasCall(s) THEN s
    ELSE cleanup(Emit(s, "call-end", s.currentCall.id))

\* ------------------------------------------------------ socket.js: resets
resetCall(s) ==
    LET id == s.currentCallId
        s1 == IF id # 0 /\ s.autoRejectTimeouts[id]
              THEN [s EXCEPT !.timers[id] = @ - 1,       \* clearTimeout
                             !.autoRejectTimeouts[id] = FALSE]
              ELSE s
        s2 == IF HasCall(s1) THEN Emit(s1, "leave-call", s1.currentCall.id) ELSE s1
        s3 == IF id # 0
              THEN DeletePendingCandidates([s2 EXCEPT !.pendingOffers[id] = None], id)
              ELSE s2
    IN  [cleanup(s3) EXCEPT !.currentCall = NoCall, !.currentCallId = 0]

\* handleCallRejected, handleCallError, handleCallForceEnded, handleStaffUnavailable
handleCallRejected(s) == resetCall(s)

\* handleCallEnded, handleUserDisconnected
handleCallEnded(s) == resetCall(cleanup(s))

\* handleCallAccepted
handleCallAccepted(s, i, callId) ==
    ReplayStart([s EXCEPT !.currentCallId = callId,
                          !.procs[i].callId = callId,
                          !.procs[i].ret = "accepted"], i)

\* --------------------------------------------- socket.js: incoming calls
\* socket.on('incoming-call') after handleIncomingCall returned success
OnIncomingCall_after(s, i, success) ==
    LET p == s.procs[i] IN
    Done(IF success /\ p.ret = "incoming-call" /\ p.offer # None
         THEN [s EXCEPT !.pendingOffers[p.callId] = p.offer] ELSE s, i)

\* (fault) handleIncomingCall that keeps a handle it finds
handleIncomingCall_setup_reuse(s, i) ==
    LET callId == s.procs[i].callId
        call == [id |-> callId, userId |-> "alice", staffUserId |-> "staff",
                 status |-> "INCOMING"]
        s0 == setCurrentCall(s, call)
        s1 == IF HasPc(s0) THEN s0 ELSE createPeerConnection(s0)
    IN  IF s1.timers[callId] >= MaxTimers THEN [s1 EXCEPT !.ok = FALSE]
        ELSE OnIncomingCall_after(
                 [s1 EXCEPT !.timers[callId] = @ + 1,
                            !.autoRejectTimeouts[callId] = TRUE], i, TRUE)

\* handleIncomingCall from the construction of the Call Record
handleIncomingCall_setup(s, i) ==
    LET callId == s.procs[i].callId
        call == [id |-> callId, userId |-> "alice", staffUserId |-> "staff",
                 status |-> "INCOMING"]
        s1 == createPeerConnection(setCurrentCall(s, call))
    IN  IF s1.timers[callId] >= MaxTimers THEN [s1 EXCEPT !.ok = FALSE]
        ELSE OnIncomingCall_after(
                 [s1 EXCEPT !.timers[callId] = @ + 1,
                            !.autoRejectTimeouts[callId] = TRUE], i, TRUE)

\* handleIncomingCall resumed after initializeMedia
handleIncomingCall_media(s, i, m) ==
    IF m = "ok" THEN handleIncomingCall_setup([s EXCEPT !.localStream = TRUE], i)
    ELSE OnIncomingCall_after(s, i, FALSE)

\* handleIncomingCall(data) up to its first await
handleIncomingCall(s, i) ==
    IF ~s.localStream THEN Susp(s, i, "in_media", 0, 0)
    ELSE handleIncomingCall_setup(s, i)

\* socket.on('incoming-call'), socket.on('initiate-call'); attached is data.offer
OnIncomingCall(s, i, evt, callId, attached) ==
    LET s1 == Emit([s EXCEPT !.currentCallId = callId], "join-call", callId)
        pendingOffer == s.pendingOffers[callId]
        offer == IF evt = "incoming-call" /\ pendingOffer # None
                 THEN pendingOffer ELSE attached
    IN  handleIncomingCall([s1 EXCEPT !.procs[i].callId = callId,
                                      !.procs[i].offer = offer,
                                      !.procs[i].ret = evt], i)

\* (fault) the 60 s callback that rejects whatever the Call Record says
AutoRejectFire_noGuard(s, id) ==
    LET s1 == [s EXCEPT !.timers[id] = @ - 1, !.autoRejectTimeouts[id] = FALSE]
    IN  [handleCallRejected(s1) EXCEPT !.autoRejectTimeouts[id] = FALSE]

\* (fault) the 60 s callback that only forgets its map entry
AutoRejectFire_noReset(s, id) ==
    [s EXCEPT !.timers[id] = @ - 1, !.autoRejectTimeouts[id] = FALSE]

\* the 60 s callback that handleIncomingCall armed for call id.  Timers of one
\* call id elapse in the order they were armed, so the elapsing timer is the
\* one the map holds only when it is the last one armed; clearTimeout of the
\* elapsing timer itself (resetCall) cancels nothing.
AutoRejectFire(s, id) ==
    LET own == s.autoRejectTimeouts[id] /\ s.timers[id] = 1
        s1 == [s EXCEPT !.timers[id] = @ - 1,
                        !.autoRejectTimeouts[id] = IF own THEN FALSE ELSE @]
        s2 == IF HasCall(s1) /\ s1.currentCall.id = id
                 /\ s1.currentCall.status = "INCOMING"
              THEN handleCallRejected(s1) ELSE s1
    IN  [s2 EXCEPT !.autoRejectTimeouts[id] = FALSE]

\* --------------------------------------------- socket.js: remote candidates
\* (fault) socket.on('ice-candidate') whose buffer for a call without handle is
\* the pending map, replayed later
OnIceCandidate_bufferNoPc(s, i, callId, c) ==
    LET s0 == [s EXCEPT !.nextCand = c + 1, !.candHist[c].nopc = ~HasPc(s)] IN
    IF s0.currentCallId = 0 \/ callId # s0.currentCallId
    THEN Done(PushPendingCandidate([s0 EXCEPT !.candHist[c].recv = "pending"],
                                   callId, c), i)
    ELSE IF ~HasPc(s0)
    THEN Done(PushPendingCandidate([s0 EXCEPT !.candHist[c].recv = "thrown"],
                                   callId, c), i)
    ELSE LET s1 == handleIceCandidate(
                       [s0 EXCEPT !.candHist[c].recv = "handled",
                                  !.procs[i].callId = callId,
                                  !.procs[i].ret = "evt"], i, c)
         IN  IF Running(s1, i) THEN Done(s1, i) ELSE s1

\* socket.on('ice-candidate') for the fresh candidate c
OnIceCandidate(s, i, callId, c) ==
    LET s0 == [s EXCEPT !.nextCand = c + 1, !.candHist[c].nopc = ~HasPc(s)] IN
    IF s0.currentCallId = 0 \/ callId # s0.currentCallId
    THEN Done(PushPendingCandidate([s0 EXCEPT !.candHist[c].recv = "pending"],
                                   callId, c), i)
    ELSE IF ~HasPc(s0)
    THEN Done(Uncaught([s0 EXCEPT !.candHist[c].recv = "thrown"]), i)  \* bufferedIceCandidates.push: ReferenceError
    ELSE LET s1 == handleIceCandidate(
                       [s0 EXCEPT !.candHist[c].recv = "handled",
                                  !.procs[i].callId = callId,
                                  !.procs[i].ret = "evt"], i, c)
         IN  IF Running(s1, i) THEN Done(s1, i) ELSE s1

\* the 1 s callback armed by handleIceCandidate for candidate c
CandTimerFire(s, i, c) ==
    LET s1 == [s EXCEPT !.candTimers[c] = @ - 1] IN
    IF ~HasPc(s1) THEN Done(Uncaught(s1), i)     \* peerConnection.remoteDescription: TypeError
    ELSE IF CurPc(s1).remote # None
    THEN Susp([s1 EXCEPT !.procs[i].ret = "timer"], i, "tm_add", s1.peerConnection, c)
    ELSE Done(s1, i)

\* the 1 s callback resumed after addIceCandidate; nothing catches a rejection
CandTimer_add(s, i, h, c, res) ==
    IF res = "ok" THEN Done(AddIce(s, h, c), i)
    ELSE IF res = "fail" THEN Done(Uncaught(s), i)
    ELSE Done(s, i)

\* ------------------- webrtc.js: local candidates and connectivity changes
\* const maxRetries = 3
maxRetries == 3

\* (fault) attemptSend that retries once less
attemptSend_catch_fewer(s, i) ==
    IF s.procs[i].n < maxRetries - 1
    THEN Susp([s EXCEPT !.procs[i].n = @ + 1], i, "si_backoff", 0, 0)
    ELSE Done(s, i)

\* attemptSend: the catch block; the wait before the next attempt is
\* 1000 * retryCount ms
attemptSend_catch(s, i) ==
    IF s.procs[i].n < maxRetries
    THEN Susp([s EXCEPT !.procs[i].n = @ + 1], i, "si_backoff", 0, 0)
    ELSE Done(s, i)

\* attemptSend from "Check if we still have a current call"; res = "throw":
\* the emit throws
attemptSend_emit(s, i, res) ==
    IF ~HasCall(s) THEN Done(s, i)
    ELSE IF res = "ok" THEN Done(Emit(s, "ice-candidate", s.currentCall.id), i)
    ELSE attemptSend_catch(s, i)

\* attemptSend up to its await; connected is socket.connected
attemptSend(s, i, connected, res) ==
    IF ~connected THEN Susp(s, i, "si_connect", 0, 0)     \* socket.connect(), wait 1 s
    ELSE attemptSend_emit(s, i, res)

\* peerConnection.onicecandidate with a candidate: bufferIceCandidate, then
\* sendIceCandidate
onicecandidate(s, i, connected, res) ==
    IF HasCall(s)
    THEN attemptSend([s EXCEPT !.iceCandidateBuffer = @ + 1,
                               !.procs[i].callId = s.currentCall.id],   \* the call it is sent for
                     i, connected, res)
    ELSE Done(s, i)

\* peerConnection.oniceconnectionstatechange, the state already changed
oniceconnectionstatechange(s) ==
    IF CurPc(s).ice = "connected"
    THEN IF HasCall(s) /\ s.currentCall.status # "CONNECTED"
         THEN Emit(s, "call-start", s.currentCall.id) ELSE s
    ELSE IF CurPc(s).ice = "failed" THEN endCall(s)
    ELSE s

\* ------------------------------------------------------------ the machine
OfferTypes == {"offer"}      \* data.offer.type of the offers the relay forwards

\* an event handler starts in the scratch slot 0
Begin == [St EXCEPT !.procs[0] = [Idle EXCEPT !.pc = "run"]]
\* the suspended handler of slot i runs again
Resumed(i) == Wake(St, i)

\* Suspended handlers have no identity, and neither have connections: a state
\* is kept with the suspended handlers in the low slots, in the order of their
\* labels, and the connections numbered from the current one on.
PcRank(pc) ==
    CASE pc = "in_media" -> 1 [] pc = "ho_media" -> 2 [] pc = "ho_setRemote" -> 3
      [] pc = "ho_settle" -> 4 [] pc = "ho_createAnswer" -> 5 [] pc = "ho_setLocal" -> 6
      [] pc \in {"ho_gather", "ho_timeout"} -> 7 [] pc = "ic_add" -> 8 [] pc = "tm_add" -> 9
      [] pc = "ha_setRemote" -> 10 [] pc = "ac_import" -> 11 [] pc = "ac_media" -> 12
      [] pc = "ac_createAnswer" -> 13 [] pc = "ac_setLocal" -> 14 [] pc = "sc_media" -> 15
      [] pc = "sc_createOffer" -> 16 [] pc = "sc_setLocal" -> 17 [] pc = "sc_fetch" -> 18
      [] pc = "si_connect" -> 19 [] pc = "si_backoff" -> 20
      [] OTHER -> 21

RECURSIVE InsertProc(_, _)
InsertProc(q, p) ==
    IF q = <<>> THEN <<p>>
    ELSE IF PcRank(p.pc) < PcRank(Head(q).pc) THEN <<p>> \o q
    ELSE <<Head(q)>> \o InsertProc(Tail(q), p)

RECURSIVE PackSeq(_, _)
PackSeq(ps, j) ==
    IF j = 0 THEN <<>>
    ELSE IF ps[j].pc = "idle" THEN PackSeq(ps, j - 1)
    ELSE InsertProc(PackSeq(ps, j - 1), ps[j])

Packed(ps) ==
    LET q == PackSeq(ps, MaxProcs) IN
    [j \in 0..MaxProcs |-> IF j >= 1 /\ j <= Len(q) THEN q[j] ELSE Idle]

RECURSIVE AddNew(_, _)
AddNew(order, hs) ==
    IF hs = <<>> THEN order
    ELSE AddNew(IF Head(hs) = 0 \/ \E k \in 1..Len(order) : order[k] = Head(hs)
                THEN order ELSE Append(order, Head(hs)), Tail(hs))

\* the connections in use, the current one first
HandleOrder(pc, ps, hpcs) ==
    AddNew(AddNew(AddNew(<<>>, <<pc>>), [j \in 1..MaxProcs |-> ps[j].h]),
           [h \in Handles |-> IF hpcs[h].st = "free" THEN 0 ELSE h])

\* the call ids of the call-start messages among the sent ones
\* the answer messages among the messages of a run
AnswersIn(out) == Cardinality({k \in 1..Len(out) : out[k].type = "answer"})

CallStartsIn(out) ==
    {out[k].callId : k \in {j \in 1..Len(out) : out[j].type = "call-start"}}

\* Write a finished run back.  A handler that is suspended takes a free slot;
\* a closed connection no suspended handler awaits is forgotten.
Renum(order, h) == IF h = 0 THEN 0 ELSE CHOOSE k \in 1..Len(order) : order[k] = h

Store(s, moved, kept, order) ==
    /\ procs' = [j \in DOMAIN moved |-> [moved[j] EXCEPT !.h = Renum(order, @)]]
    /\ pcs' = [k \in Handles |-> IF k <= Len(order) THEN kept[order[k]] ELSE FreePc]
    /\ peerConnection' = Renum(order, s.peerConnection)
    /\ role' = s.role
    /\ localStream' = s.localStream
    /\ currentCall' = s.currentCall
    /\ currentCallId' = s.currentCallId
    /\ pendingOffers' = s.pendingOffers
    /\ pendingCandidates' = s.pendingCandidates
    /\ autoRejectTimeouts' = s.autoRejectTimeouts
    /\ timers' = s.timers
    /\ candTimers' = s.candTimers
    /\ nextCand' = s.nextCand
    /\ candHist' = s.candHist
    /\ iceCandidateBuffer' = s.iceCandidateBuffer
    /\ polls' = s.polls
    /\ heard' = IF s.heard.on
                THEN [on |-> TRUE,
                      invites |-> s.heard.invites + s.invite,
                      offers |-> s.heard.offers + s.offer,
                      answers |-> s.heard.answers + AnswersIn(s.out)]
                ELSE s.heard
    /\ callStarted' = IF HasCall(s)
                      THEN (s.callStarted \cup CallStartsIn(s.out)) \cap {s.currentCall.id}
                      ELSE {}

Forget(s, moved, kept) == Store(s, moved, kept, HandleOrder(s.peerConnection, moved, kept))

Place(s, moved) ==
    Forget(s, moved,
           [h \in Handles |->
               IF s.pcs[h].st = "closed" /\ \A j \in DOMAIN moved : moved[j].h # h
               THEN FreePc ELSE s.pcs[h]])

Commit(s) ==
    LET free == {j \in Slots : s.procs[j].pc = "idle"} IN
    /\ s.ok
    /\ s.procs[0].pc = "idle" \/ free # {}
    /\ Place(s, Packed(IF s.procs[0].pc = "idle" THEN s.procs
                       ELSE [s.procs EXCEPT ![Min(free)] = s.procs[0], ![0] = Idle]))

InitProgram ==
    /\ role \in Roles
    /\ peerConnection = 0
    /\ pcs = [h \in Handles |-> FreePc]
    /\ localStream = FALSE
    /\ currentCall = NoCall
    /\ currentCallId = 0
    /\ pendingOffers = [id \in AllCallIds |-> None]
    /\ pendingCandidates = [id \in AllCallIds |-> <<>>]
    /\ autoRejectTimeouts = [id \in AllCallIds |-> FALSE]
    /\ timers = [id \in AllCallIds |-> 0]
    /\ candTimers = [c \in Cands |-> 0]
    /\ procs = [j \in 0..MaxProcs |-> Idle]
    /\ nextCand = 1
    /\ candHist = [c \in Cands |-> NoHist]
    /\ iceCandidateBuffer = 0
    /\ callStarted = {}
    /\ polls = 0

NotHeard == [on |-> FALSE, invites |-> 0, offers |-> 0, answers |-> 0]

Init == InitProgram /\ heard = NotHeard

\* ---- signaling events.  The relay routes invites, offers and the echo of
\* process-pending-offer to the staff member, answers and call-accepted to the
\* calling user; the accept and reject buttons are the staff member's, the call
\* button the user's.
IncomingCallEvt ==
    /\ role = "STAFF"
    /\ \E evt \in {"incoming-call", "initiate-call"}, id \in CallIds,
          attached \in OfferTypes \cup {None} :
           Commit(OnIncomingCall(Begin, 0, evt, id, attached))

OfferEvt ==
    /\ role = "STAFF"
    /\ \E id \in CallIds, from \in Peers, offer \in OfferTypes :
          Commit(OnOffer(Begin, 0, id, from, offer))

IceCandidateEvt ==
    /\ nextCand <= MaxCands
    /\ \E id \in CallIds : Commit(OnIceCandidate(Begin, 0, id, nextCand))

AnswerEvt == role = "USER" /\ Commit(handleAnswer(Begin, 0))

ProcessPendingOfferEvt ==
    /\ role = "STAFF"
    /\ \E id \in CallIds : Commit(OnProcessPendingOffer(Begin, 0, id))

CallAcceptedEvt ==
    /\ role = "USER"
    /\ \E id \in CallIds : Commit(handleCallAccepted(Begin, 0, id))

CallRejectedEvt == Commit(handleCallRejected(St))

CallEndedEvt == Commit(handleCallEnded(St))

\* ---- the user's buttons
AcceptCallClick == role = "STAFF" /\ Commit(acceptCall(Begin, 0))

RejectCallClick == role = "STAFF" /\ Commit(rejectCall(St))

EndCallClick == Commit(endCall(St))

StartCallClick == role = "USER" /\ Commit(startCall(Begin, 0))

\* ---- timers
AutoRejectTimer == \E id \in AllCallIds : timers[id] > 0 /\ Commit(AutoRejectFire(St, id))

CandTimer == \E c \in Cands : candTimers[c] > 0 /\ Commit(CandTimerFire(Begin, 0, c))

\* ---- suspended handlers resumed by the completion they await

ResumeIncomingCall ==
    \E i \in Slots, both \in MediaResults, audioOnly \in MediaResults :
        /\ procs[i].pc = "in_media"
        /\ Commit(handleIncomingCall_media(initializeMedia(Resumed(i), both, audioOnly), i,
                                           MediaResult(initializeMedia(Resumed(i), both, audioOnly))))

\* (handleOffer never waits for media: a Call Record exists only with a stream
\* held, and cleanup drops both together)
ResumeHandleOfferToWait ==
    \E i \in Slots :
        LET p == procs[i] IN
        \/ /\ p.pc = "ho_setRemote"
           /\ \E res \in Outcomes(St, p.h, CanSetRemote(St, p.h, "offer"), TRUE) :
                 Commit(handleOffer_setRemote(Resumed(i), i, p.h, res))
        \/ /\ p.pc = "ho_settle"
           /\ Commit(handleOffer_settle(Resumed(i), i))
        \/ /\ p.pc = "ho_createAnswer"
           /\ \E res \in Outcomes(St, p.h, CanCreateAnswer(St, p.h), FALSE) :
                 Commit(handleOffer_createAnswer(Resumed(i), i, res))
        \/ /\ p.pc = "ho_setLocal"
           /\ \E res \in Outcomes(St, p.h, CanSetLocal(St, p.h, "answer"), FALSE) :
                 Commit(handleOffer_setLocal(Resumed(i), i, p.h, res))

\* the gathering wait ends, by its timer or by its poll
ResumeHandleOffer ==
    \/ ResumeHandleOfferToWait
    \/ \E i \in Slots :
           procs[i].pc = "ho_gather" /\ Commit(handleOffer_send(Resumed(i), i))

ResumeAcceptCall ==
    \E i \in Slots :
        LET p == procs[i] IN
        \/ /\ p.pc = "ac_import"
           /\ Commit(acceptCall_import(Resumed(i), i))
        \/ /\ p.pc = "ac_media"
           /\ \E both \in MediaResults, audioOnly \in MediaResults :
                 Commit(acceptCall_media(initializeMedia(Resumed(i), both, audioOnly), i,
                                         MediaResult(initializeMedia(Resumed(i), both, audioOnly))))
        \/ /\ p.pc = "ac_createAnswer"
           /\ \E res \in Outcomes(St, p.h, CanCreateAnswer(St, p.h), FALSE) :
                 Commit(acceptCall_createAnswer(Resumed(i), i, res))
        \/ /\ p.pc = "ac_setLocal"
           /\ \E res \in Outcomes(St, p.h, CanSetLocal(St, p.h, "answer"), FALSE) :
                 Commit(acceptCall_setLocal(Resumed(i), i, p.h, res))

ResumeHandleAnswer ==
    \E i \in Slots :
        LET p == procs[i] IN
        /\ p.pc = "ha_setRemote"
        /\ \E res \in Outcomes(St, p.h, CanSetRemote(St, p.h, "answer"), FALSE) :
              Commit(handleAnswer_setRemote(Resumed(i), i, p.h, res))

ResumeIceCandidate ==
    \E i \in Slots :
        LET p == procs[i] IN
        \/ /\ p.pc = "ic_add"
           /\ \E res \in Outcomes(St, p.h, CanAddIce(St, p.h), FALSE) :
                 Commit(handleIceCandidate_add(Resumed(i), i, p.h, p.c, res))
        \/ /\ p.pc = "tm_add"
           /\ \E res \in Outcomes(St, p.h, CanAddIce(St, p.h), FALSE) :
                 Commit(CandTimer_add(Resumed(i), i, p.h, p.c, res))

StartCallResults == {"success", "busy", "failure"}
\* call.status as the server writes it: the client stores the object unread
ResponseStatuses == {"CALLING", "INITIATED"}

ResumeStartCall ==
    \E i \in Slots :
        LET p == procs[i] IN
        \/ /\ p.pc = "sc_media"
           /\ \E both \in MediaResults, audioOnly \in MediaResults :
                 Commit(startCall_media(initializeMedia(Resumed(i), both, audioOnly), i,
                                        MediaResult(initializeMedia(Resumed(i), both, audioOnly))))
        \/ /\ p.pc = "sc_createOffer"
           /\ \E res \in Outcomes(St, p.h, Live(St, p.h), FALSE) :
                 Commit(startCall_createOffer(Resumed(i), i, res))
        \/ /\ p.pc = "sc_setLocal"
           /\ \E res \in Outcomes(St, p.h, CanSetLocal(St, p.h, "offer"), FALSE) :
                 Commit(startCall_setLocal(Resumed(i), i, p.h, res))
        \/ /\ p.pc = "sc_fetch"
           /\ \E r \in StartCallResults, id \in CallIds, st \in ResponseStatuses :
                 Commit(startCall_fetch(Resumed(i), i, r, id, st))

Next ==
    \/ IncomingCallEvt
    \/ OfferEvt
    \/ IceCandidateEvt
    \/ AnswerEvt
    \/ ProcessPendingOfferEvt
    \/ CallAcceptedEvt
    \/ CallRejectedEvt
    \/ CallEndedEvt
    \/ AcceptCallClick
    \/ RejectCallClick
    \/ EndCallClick
    \/ StartCallClick
    \/ AutoRejectTimer
    \/ CandTimer
    \/ ResumeIncomingCall
    \/ ResumeHandleOffer
    \/ ResumeAcceptCall
    \/ ResumeHandleAnswer
    \/ ResumeIceCandidate
    \/ ResumeStartCall

Spec == Init /\ [][Next]_vars

\* ---- the staff member's client with invites for several call ids, so that a
\* call can be replaced by a call with another id while timers of the first are
\* armed; no remote candidates
InviteEvt ==
    \E evt \in {"incoming-call", "initiate-call"}, id \in InviteIds,
       attached \in OfferTypes \cup {None} :
        Commit(OnIncomingCall(Begin, 0, evt, id, attached))

InitInvites == Init /\ role = "STAFF"

NextInvites ==
    \/ InviteEvt
    \/ OfferEvt
    \/ ProcessPendingOfferEvt
    \/ CallRejectedEvt
    \/ CallEndedEvt
    \/ AcceptCallClick
    \/ RejectCallClick
    \/ EndCallClick
    \/ AutoRejectTimer
    \/ ResumeIncomingCall
    \/ ResumeHandleOffer
    \/ ResumeAcceptCall

SpecInvites == InitInvites /\ [][NextInvites]_vars

\* ---- the staff client with the gathering wait of handleOffer in steps: the
\* 5 s timer, the 100 ms poll and the handle's iceGatheringState.  The other
\* specifications take the end of the wait as one step and leave the polls,
\* which write nothing, out.
GatheringCompleteEvt ==
    /\ Live(St, peerConnection) /\ CurPc(St).gath = "gathering"
    /\ Commit([St EXCEPT !.pcs[peerConnection].gath = "complete"])

GatherTimeoutFire ==
    \E i \in Slots :
        /\ procs[i].pc \in {"ho_gather", "ho_timeout"}
        /\ procs[i].pc = "ho_gather" => polls < MaxPolls
        /\ Commit(iceGatheringTimeout(Resumed(i), i, procs[i].pc = "ho_gather"))

CheckStateTick ==
    \E i \in Slots : procs[i].pc = "ho_gather" /\ Commit(checkState(Resumed(i), i))

StrayCheckStateTick == polls > 0 /\ Commit(checkState_stray(St))

InitGather == Init /\ role = "STAFF"

NextGather ==
    \/ IncomingCallEvt
    \/ OfferEvt
    \/ CallEndedEvt
    \/ AcceptCallClick
    \/ ResumeIncomingCall
    \/ ResumeAcceptCall
    \/ ResumeHandleOfferToWait
    \/ GatheringCompleteEvt
    \/ GatherTimeoutFire
    \/ CheckStateTick
    \/ StrayCheckStateTick

SpecGather == InitGather /\ [][NextGather]_vars

\* a scheduled poll runs; when discovery completes, what the relay sends and
\* what the staff member clicks are left open
FairGather == SpecGather /\ WF_vars(StrayCheckStateTick)

\* ---- the staff client with one invite and one offer, which arrives with
\* the invite or by an offer event at any time; the answers sent are counted
OneInviteEvt ==
    /\ heard.invites = 0
    /\ \E evt \in {"incoming-call", "initiate-call"}, id \in CallIds,
          attached \in {a \in OfferTypes \cup {None} : a # None => heard.offers = 0} :
           Commit(OnIncomingCall([Begin EXCEPT !.invite = 1,
                                               !.offer = IF attached # None THEN 1 ELSE 0],
                                 0, evt, id, attached))

OneOfferEvt ==
    /\ heard.offers = 0
    /\ \E id \in CallIds, from \in Peers, offer \in OfferTypes :
          Commit(OnOffer([Begin EXCEPT !.offer = 1], 0, id, from, offer))

InitAnswers ==
    /\ InitProgram /\ role = "STAFF"
    /\ heard = [NotHeard EXCEPT !.on = TRUE]

CountedHandleOffer == ResumeHandleOffer /\ heard'.answers <= MaxAnswers
CountedAcceptCall == ResumeAcceptCall /\ heard'.answers <= MaxAnswers

NextAnswers ==
    \/ OneInviteEvt
    \/ OneOfferEvt
    \/ ProcessPendingOfferEvt
    \/ AcceptCallClick
    \/ CallEndedEvt
    \/ ResumeIncomingCall
    \/ CountedHandleOffer
    \/ CountedAcceptCall

SpecAnswers == InitAnswers /\ [][NextAnswers]_vars

\* ---- the calling user's client with the events of its handle: candidates
\* the handle discovers once its local description is set, and changes of its
\* connectivity once both descriptions are set
SendResults == {"ok", "throw"}

LocalCandidateEvt ==
    /\ Live(St, peerConnection) /\ CurPc(St).local # None
    /\ iceCandidateBuffer < MaxLocalCands
    /\ \E connected \in BOOLEAN, res \in SendResults :
          Commit(onicecandidate(Begin, 0, connected, res))

ResumeSendIceCandidate ==
    \E i \in Slots :
        LET p == procs[i] IN
        \/ /\ p.pc = "si_connect"
           /\ \E res \in SendResults : Commit(attemptSend_emit(Resumed(i), i, res))
        \/ /\ p.pc = "si_backoff"
           /\ \E connected \in BOOLEAN, res \in SendResults :
                 Commit(attemptSend(Resumed(i), i, connected, res))

\* the changes of iceConnectionState a browser reports ("checking" counted
\* with "new"; no restart after "failed")
IceNext(cur) ==
    CASE cur = "new" -> {"connected", "failed"}
      [] cur = "connected" -> {"completed", "disconnected"}
      [] cur = "completed" -> {"disconnected"}
      [] cur = "disconnected" -> {"connected", "failed"}
      [] OTHER -> {}

IceStateEvt ==
    /\ Live(St, peerConnection)
    /\ CurPc(St).local # None /\ CurPc(St).remote # None
    /\ \E st \in IceNext(CurPc(St).ice) :
          Commit(oniceconnectionstatechange([St EXCEPT !.pcs[peerConnection].ice = st]))

InitIce == Init /\ role = "USER"

NextIce ==
    \/ StartCallClick
    \/ ResumeStartCall
    \/ AnswerEvt
    \/ ResumeHandleAnswer
    \/ LocalCandidateEvt
    \/ ResumeSendIceCandidate
    \/ IceStateEvt
    \/ EndCallClick
    \/ CallEndedEvt

SpecIce == InitIce /\ [][NextIce]_vars

\* ------------------------------------------------------------------ claims
HoLabels == {"ho_media", "ho_setRemote", "ho_settle", "ho_createAnswer",
             "ho_setLocal", "ho_gather", "ho_timeout"}

\* C1: every path that can hand a remote offer to handleOffer (the offer event,
\* the process-pending-offer event, acceptCall's direct consumption) does so only
\* with the Call Record in ACCEPTED; an offer event that finds the record absent
\* or INCOMING stores the offer in pendingOffers under its call id and touches
\* no handle; and a live handle carries a remote offer only while ACCEPTED.
C1_OfferOnlyWhenAccepted ==
    /\ \A id \in CallIds, from \in Peers, offer \in OfferTypes :
          LET r == OnOffer(Begin, 0, id, from, offer) IN
          /\ r.ho \subseteq {"ACCEPTED"}
          /\ currentCall.status \in {None, "INCOMING"} =>
                /\ r.pendingOffers[id] = offer
                /\ r.pcs = pcs /\ r.peerConnection = peerConnection
                /\ r.procs = procs
    /\ \A id \in CallIds : OnProcessPendingOffer(Begin, 0, id).ho \subseteq {"ACCEPTED"}
    /\ \A i \in Slots :
          procs[i].pc = "ac_import" => acceptCall_import(Resumed(i), i).ho \subseteq {"ACCEPTED"}
    /\ \A h \in Handles :
          pcs[h].st = "live" /\ pcs[h].remote = "offer" => currentCall.status = "ACCEPTED"

\* an offer is parked for the ringing call while another offer is being applied
C1_Witness ==
    \E id \in CallIds :
        /\ currentCall.status = "INCOMING" /\ currentCall.id = id
        /\ pendingOffers[id] = "offer"
        /\ \E i \in Slots : procs[i].pc \in HoLabels

\* C2: at most one negotiation handle is live, and it is the current one.
C2_OneLiveHandle ==
    /\ Cardinality({h \in Handles : pcs[h].st = "live"}) <= 1
    /\ \A h \in Handles : pcs[h].st = "live" => h = peerConnection

\* a handle was replaced while a handler still awaited an operation on it
C2_Witness ==
    /\ peerConnection # 0 /\ pcs[peerConnection].st = "live"
    /\ \E h \in Handles : h # peerConnection /\ pcs[h].st = "closed"

\* C3: an operation a suspended handler awaits on a handle that is no longer the
\* current one cannot be applied: that handle is closed, so the operation fails
\* or never settles; and whatever is applied is applied to the current handle.
C3_NothingAppliedToStaleHandle ==
    /\ \A i \in Slots :
          procs[i].h # 0 /\ procs[i].h # peerConnection =>
             /\ pcs[procs[i].h].st = "closed"
             /\ "ok" \notin Outcomes(St, procs[i].h, TRUE, TRUE)
    /\ \A h \in Handles :
          h # peerConnection =>
             pcs[h].remote = None /\ pcs[h].local = None /\ pcs[h].cands = {}

\* a handleOffer, handleAnswer, acceptCall or candidate timer awaits an operation
\* on a handle that a newer handle has replaced
C3_Witness ==
    \E i \in Slots :
        /\ procs[i].pc \in {"ho_setRemote", "ho_setLocal", "ha_setRemote",
                            "ac_setLocal", "tm_add", "ic_add"}
        /\ procs[i].h # 0 /\ procs[i].h # peerConnection
        /\ peerConnection # 0

\* C4: addIceCandidate is called (immediate path, delayed re-attempt, replay) only
\* on a handle that has a remote description, and a handle holds an applied
\* candidate only with a remote description.
C4_CandidateNeedsRemoteDescription ==
    /\ \A i \in Slots :
          procs[i].pc \in {"ic_add", "tm_add"} /\ Live(St, procs[i].h) =>
             pcs[procs[i].h].remote # None
    /\ \A h \in Handles : pcs[h].cands # {} => pcs[h].remote # None
    /\ \A c \in Cands : candTimers[c] > 0 /\ HasPc(St) /\ CurPc(St).remote = None =>
          CandTimerFire(Begin, 0, c).pcs = pcs /\ CandTimerFire(Begin, 0, c).procs[0] = Idle

\* a candidate has been applied through the replay of pending candidates
C4_Witness ==
    \E c \in Cands, h \in Handles :
        c \in pcs[h].cands /\ candHist[c].recv = "pending"

\* candidate c is still held by the program: in the pending map, by an armed
\* 1 s timer, or by a suspended handler that adds or replays it
Held(c) ==
    \/ \E id \in AllCallIds :
          \E k \in 1..Len(pendingCandidates[id]) : pendingCandidates[id][k] = c
    \/ candTimers[c] > 0
    \/ \E i \in Slots :
          \/ procs[i].pc \in {"ic_add", "tm_add"} /\ procs[i].c = c
          \/ \E k \in 1..Len(procs[i].arr) : procs[i].arr[k] = c

C6_DeferredCandidateApplied ==
    \A c \in Cands :
        /\ candHist[c].deferred /\ ~Held(c)
        /\ HasPc(St) /\ CurPc(St).remote # None
        => candHist[c].applied

\* C7: with the current handle's signaling state stable, handleAnswer calls no
\* setRemoteDescription and leaves every handle as it is.
C7_AnswerAfterStableIsNoOp ==
    HasPc(St) /\ CurPc(St).sig = "stable" =>
        LET r == handleAnswer(Begin, 0) IN
        /\ r.pcs = pcs /\ r.peerConnection = peerConnection
        /\ r.procs = procs
        /\ ~r.err

\* the first answer of a negotiation has been applied
C7_Witness ==
    /\ HasPc(St) /\ CurPc(St).sig = "stable"
    /\ CurPc(St).local = "offer" /\ CurPc(St).remote = "answer"

\* C8: once acceptCall has run for the Call Record (status ACCEPTED), a further
\* acceptCall sends no call-accept and creates no handle.
C8_SecondAcceptSendsNothing ==
    currentCall.status = "ACCEPTED" =>
        LET r == acceptCall(Begin, 0) IN
        /\ \A k \in 1..Len(r.out) : r.out[k].type # "call-accept"
        /\ r.peerConnection = peerConnection /\ r.pcs = pcs

\* C9: from any status but INCOMING acceptCall sends no message and leaves the
\* Call Record unchanged.
C9_AcceptOnlyFromIncoming ==
    currentCall.status # "INCOMING" =>
        LET r == acceptCall(Begin, 0) IN
        /\ r.out = <<>>
        /\ r.currentCall = currentCall

\* C10: both consumers of a pending offer remove the entry they read, and a
\* consumer that finds no entry calls no handleOffer and raises no error.
C10_PendingOfferConsumedOnce ==
    /\ \A id \in CallIds :
          LET r == OnProcessPendingOffer(Begin, 0, id) IN
          /\ r.pendingOffers[id] = None
          /\ pendingOffers[id] = None => r.ho = {} /\ ~r.err
    /\ \A i \in Slots :
          procs[i].pc = "ac_import" /\ HasCall(St) =>
             LET r == acceptCall_import(Resumed(i), i) IN
             /\ r.pendingOffers[currentCall.id] = None
             /\ pendingOffers[currentCall.id] = None => r.ho = {} /\ ~r.err

\* the relayed path has consumed the offer while acceptCall is about to try the
\* direct path
C10_Witness ==
    \E i, j \in Slots :
        /\ procs[i].pc = "ac_import"
        /\ procs[j].pc \in HoLabels /\ procs[j].ret = "relay"
        /\ HasCall(St) /\ pendingOffers[currentCall.id] = None

\* C11: with the Call Record of the current call id in ACCEPTED (the invite came
\* and acceptCall ran), an offer event for that call id calls handleOffer in the
\* same run and leaves pendingOffers as it was.
C11_OfferAfterAcceptHandedOver ==
    \A id \in CallIds, from \in Peers, offer \in OfferTypes :
        /\ currentCall.status = "ACCEPTED" /\ currentCall.id = id
        /\ currentCallId = id
        => LET r == OnOffer(Begin, 0, id, from, offer) IN
           r.ho = {"ACCEPTED"} /\ r.pendingOffers = pendingOffers

\* acceptCall ran before any offer, and the offer that came next is being applied
C11_Witness ==
    \E i \in Slots :
        /\ procs[i].ret = "offerEvt" /\ procs[i].pc = "ho_setRemote"
        /\ currentCall.status = "ACCEPTED" /\ currentCallId = currentCall.id
        /\ pendingOffers[currentCall.id] = None

\* the call id's invite still rings: its Call Record is INCOMING and one of its
\* timers is armed
Ringing(id) ==
    /\ timers[id] > 0
    /\ currentCall.id = id /\ currentCall.status = "INCOMING"

\* how many messages of a type a run emitted
Sent(s, type) == Cardinality({k \in 1..Len(s.out) : s.out[k].type = type})

\* C12: when the auto-reject timer of an invite that still rings elapses, the call
\* is reset: Call Record, handle, local stream and current call id are absent.
C12_TimeoutResetsCall ==
    \A id \in AllCallIds :
        Ringing(id) =>
            LET r == AutoRejectFire(St, id) IN
            /\ r.currentCall = NoCall
            /\ r.peerConnection = 0
            /\ \A h \in Handles : r.pcs[h].st # "live"
            /\ r.currentCallId = 0
            /\ ~r.localStream
            /\ ~r.err

\* an invite rings with its handle built, and its timer elapsing tears it down
C12_Witness ==
    \E id \in AllCallIds :
        /\ Ringing(id) /\ HasPc(St) /\ currentCallId = id
        /\ AutoRejectFire(St, id).peerConnection = 0

\* C13: when rejectCall and the auto-reject timer of a ringing invite both run,
\* in either order, the two runs together send exactly one call-reject and the
\* second of them finds the call already torn down.
C13_OneRejectionInEitherOrder ==
    \A id \in AllCallIds :
        Ringing(id) =>
            LET timerFirst == rejectCall(AutoRejectFire(St, id))
                manualFirst == AutoRejectFire(rejectCall(St), id)
            IN  /\ Sent(timerFirst, "call-reject") = 1
                /\ Sent(manualFirst, "call-reject") = 1
                /\ timerFirst.currentCall = NoCall /\ timerFirst.peerConnection = 0
                /\ manualFirst.currentCall = NoCall /\ manualFirst.peerConnection = 0

\* C14: an auto-reject timer that elapses for a call id whose invite no longer
\* rings (no Call Record, another call id, or a status other than INCOMING)
\* leaves Call Record, handles, local stream, pending maps and current call id
\* as they are and sends nothing.
C14_StaleTimerChangesNothing ==
    \A id \in AllCallIds :
        timers[id] > 0 /\ ~(currentCall.id = id /\ currentCall.status = "INCOMING") =>
            LET r == AutoRejectFire(St, id) IN
            /\ r.currentCall = currentCall
            /\ r.peerConnection = peerConnection /\ r.pcs = pcs
            /\ r.localStream = localStream
            /\ r.pendingOffers = pendingOffers
            /\ r.pendingCandidates = pendingCandidates
            /\ r.currentCallId = currentCallId
            /\ r.out = <<>> /\ ~r.err

\* a timer is still armed for a call that an invite with another id replaced
C14_Witness ==
    \E id \in AllCallIds :
        /\ timers[id] > 0
        /\ HasCall(St) /\ currentCall.id # id /\ currentCall.status = "INCOMING"
        /\ HasPc(St)
        /\ AutoRejectFire(St, id).currentCall = currentCall

\* C15: the auto-reject timer of a call is cancelled on accept, on reject and
\* on every terminal transition: after acceptCall, rejectCall, endCall or a
\* remote end/reject/error for the call of the Call Record, no auto-reject
\* timer for its call id remains armed.
C15_TimerCancelledOnTransition ==
    \A id \in AllCallIds :
        HasCall(St) /\ currentCall.id = id =>
            /\ acceptCall(Begin, 0).timers[id] = 0
            /\ rejectCall(St).timers[id] = 0
            /\ endCall(St).timers[id] = 0
            /\ handleCallEnded(St).timers[id] = 0
            /\ handleCallRejected(St).timers[id] = 0

\* everything the call of the Call Record held is gone in snapshot r
AllCleared(r, id) ==
    /\ r.peerConnection = 0
    /\ \A h \in Handles : r.pcs[h].st # "live"
    /\ ~r.localStream
    /\ r.currentCall = NoCall
    /\ r.pendingOffers[id] = None
    /\ r.pendingCandidates[id] = <<>>

\* C16: after cleanup runs on any path (rejectCall, endCall, the catch block of
\* startCall, a remote call-ended, rejected or error), the handle is closed
\* and absent, no local stream is held, and the Call Record and the pending
\* offer and pending candidate entries of that call are cleared.
C16_CleanupClearsEverything ==
    \A id \in AllCallIds :
        HasCall(St) /\ currentCall.id = id =>
            /\ AllCleared(rejectCall(St), id)
            /\ AllCleared(endCall(St), id)
            /\ AllCleared(cleanup(St), id)
            /\ AllCleared(handleCallEnded(St), id)
            /\ AllCleared(handleCallRejected(St), id)

\* nothing of the call is left in snapshot r
NothingLeft(r) ==
    /\ r.currentCall = NoCall
    /\ r.peerConnection = 0
    /\ \A h \in Handles : r.pcs[h].st # "live"
    /\ ~r.localStream

\* C17: rejectCall and endCall, run while a Call Record exists, send exactly
\* the counterpart notification (call-reject, resp. call-end) with the id of
\* the Call Record and then run cleanup, after which no Call Record, handle
\* or local stream remains; run with no Call Record they send nothing and
\* change nothing.
C17_RejectAndEndNotifyThenCleanup ==
    /\ HasCall(St) =>
        /\ rejectCall(St).out = <<[type |-> "call-reject", callId |-> currentCall.id]>>
        /\ NothingLeft(rejectCall(St))
        /\ endCall(St).out = <<[type |-> "call-end", callId |-> currentCall.id]>>
        /\ NothingLeft(endCall(St))
    /\ ~HasCall(St) => rejectCall(St) = St /\ endCall(St) = St

\* a call with a connected handle and a held stream is there to be rejected
C17_Witness ==
    /\ HasCall(St) /\ localStream
    /\ Live(St, peerConnection) /\ CurPc(St).remote # None
    /\ NothingLeft(rejectCall(St))
    /\ Len(endCall(St).out) = 1

\* C18: cleanup is idempotent and safe on an empty state: run twice in a row
\* it yields the state one run yields, it never throws, and with no handle,
\* no stream and no Call Record it changes nothing.
C18_CleanupIdempotent ==
    /\ cleanup(cleanup(St)) = cleanup(St)
    /\ ~cleanup(St).err /\ ~cleanup(cleanup(St)).err
    /\ peerConnection = 0 /\ ~localStream /\ currentCall = NoCall => cleanup(St) = St

\* cleanup has a live handle, a stream and a Call Record to clear
C18_Witness ==
    /\ Live(St, peerConnection) /\ localStream /\ HasCall(St)
    /\ cleanup(St) # St
    /\ cleanup(St).pcs[peerConnection].st = "closed"
    /\ cleanup(cleanup(St)) = cleanup(St)

\* C19: a successful startCall sends exactly one offer, for the new call id,
\* and sends the join-call of that call id before it: the step that receives
\* the success response sends join-call then offer and nothing else, and no
\* earlier step of startCall sends anything.
C19_StartCallJoinsThenOffers ==
    /\ startCall(Begin, 0).out = <<>>
    /\ \A i \in Slots :
        /\ procs[i].pc = "sc_media" => startCall_media(Resumed(i), i, "ok").out = <<>>
        /\ procs[i].pc = "sc_createOffer" =>
               startCall_createOffer(Resumed(i), i, "ok").out = <<>>
        /\ procs[i].pc = "sc_setLocal" =>
               startCall_setLocal(Resumed(i), i, procs[i].h, "ok").out = <<>>
        /\ procs[i].pc = "sc_fetch" =>
               \A id \in CallIds, st \in ResponseStatuses :
                   startCall_fetch(Resumed(i), i, "success", id, st).out
                       = << [type |-> "join-call", callId |-> id],
                            [type |-> "offer", callId |-> id] >>

\* startCall awaits the response with no Call Record and its offer set on the
\* current handle
C19_Witness ==
    \E i \in Slots :
        /\ procs[i].pc = "sc_fetch" /\ ~HasCall(St)
        /\ Live(St, peerConnection) /\ CurPc(St).local = "offer"
        /\ Sent(startCall_fetch(Resumed(i), i, "success", 1, "CALLING"), "offer") = 1

\* the statuses the Call Record may have
CallStatuses == {"INCOMING", "ACCEPTED", "CALLING", "CONNECTED", "ENDED"}

\* C20: after a successful startCall the stored Call Record has status
\* CALLING, and as long as a Call Record is stored its status is one of
\* INCOMING, ACCEPTED, CALLING, CONNECTED, ENDED.
C20_StartCallStoresCalling ==
    /\ \A i \in Slots :
           procs[i].pc = "sc_fetch" =>
               \A id \in CallIds, st \in ResponseStatuses :
                   startCall_fetch(Resumed(i), i, "success", id, st).currentCall.status
                       = "CALLING"
    /\ HasCall(St) => currentCall.status \in CallStatuses

\* C21: startCall requires that no call is active: run while a Call Record is
\* stored it leaves the record and the handle as they are (nothing closed,
\* nothing built) and sends nothing.
C21_StartCallRequiresIdle ==
    HasCall(St) /\ role = "USER" =>
        LET r == startCall(Begin, 0) IN
        /\ r.currentCall = currentCall
        /\ r.peerConnection = peerConnection /\ r.pcs = pcs
        /\ r.out = <<>>

\* C23: initializeMedia fails only when audio capture itself fails: when the
\* combined request fails and the audio-only request succeeds it returns an
\* audio-only stream, stores it and shows the video-unavailable notice; it
\* throws only when the audio-only request fails too, and then the stored
\* stream is the one from before the call.
C23_MediaFallsBackToAudio ==
    \A both \in MediaResults, audioOnly \in MediaResults :
        LET r == initializeMedia(St, both, audioOnly) IN
        /\ both = "fail" /\ audioOnly = "ok" =>
               /\ r.media = "audio" /\ r.localStream
               /\ r.shown = <<"Video unavailable - audio only mode">>
        /\ r.media = "throw" <=> both = "fail" /\ audioOnly = "fail"
        /\ r.media = "throw" => r.localStream = localStream
        /\ both = "ok" => r.media = "audio+video" /\ r.localStream /\ r.shown = <<>>

\* a handler waits for initializeMedia with no stream held
C23_Witness ==
    /\ ~localStream
    /\ \E i \in Slots : procs[i].pc \in {"in_media", "sc_media"}
    /\ initializeMedia(St, "fail", "ok").localStream
    /\ initializeMedia(St, "fail", "fail").media = "throw"

\* a handler run starts in the scratch slot of snapshot r
Again(r) == [r EXCEPT !.procs[0] = [Idle EXCEPT !.pc = "run"]]

RingsFresh(r, X) ==
    /\ r.currentCall.id = X /\ r.currentCall.status = "INCOMING"
    /\ r.timers[X] > 0 /\ r.autoRejectTimeouts[X]
    /\ Live(r, r.peerConnection)
    /\ CurPc(r).remote = None /\ CurPc(r).local = None /\ CurPc(r).sig = "stable"

OfferFrom(from) ==
    [Begin EXCEPT !.procs[0].callId = currentCallId, !.procs[0].offer = "offer",
                  !.procs[0].from = from, !.procs[0].ret = "offerEvt"]

\* the sender is not the counterpart of the Call Record, or there is no record
Unexpected(from) ==
    \/ ~HasCall(St)
    \/ role = "USER" /\ from # currentCall.staffUserId
    \/ role = "STAFF" /\ from # currentCall.userId

\* C25: handleOffer rejects an offer whose sender is not the counterpart of
\* the Call Record (the staff member for a USER, the user for a STAFF) and any
\* offer when no Call Record exists: nothing is applied or left waiting, no
\* handle is closed or built, no answer is sent and the Call Record and the
\* stream are unchanged.
C25_OfferFromStrangerRejected ==
    \A from \in Peers :
        Unexpected(from) =>
            LET r == handleOffer(OfferFrom(from), 0) IN
            /\ r.pcs = pcs /\ r.peerConnection = peerConnection
            /\ r.currentCall = currentCall /\ r.localStream = localStream
            /\ r.out = <<>>
            /\ r.procs = procs

\* an offer for the accepted call, which the offer event hands to handleOffer,
\* comes from somebody else than the caller
C25_Witness ==
    /\ role = "STAFF" /\ HasCall(St) /\ currentCall.status = "ACCEPTED"
    /\ currentCallId = currentCall.id
    /\ Live(St, peerConnection) /\ localStream
    /\ Unexpected("staff")
    /\ handleOffer(OfferFrom("staff"), 0).pcs = pcs
    /\ handleOffer(OfferFrom("alice"), 0).pcs # pcs

\* C26: every candidate the live handle discovers once its local description
\* is set is appended to the candidate buffer, whatever becomes of sending it,
\* also during startCall before the call id is known.
C26_EveryCandidateBuffered ==
    Live(St, peerConnection) /\ CurPc(St).local # None =>
        \A connected \in BOOLEAN, res \in SendResults :
            onicecandidate(Begin, 0, connected, res).iceCandidateBuffer
                = iceCandidateBuffer + 1

\* C27 as claimed: sendIceCandidate makes at most 3 send attempts in total: a
\* send that waits to try again has been attempted at most twice.
C27_AtMostThreeAttempts ==
    \A i \in Slots :
        procs[i].pc = "si_backoff" => procs[i].n + 1 <= 3

\* C27: sendIceCandidate makes at most maxRetries + 1 = 4 send attempts in
\* total: a send that waits to try again has failed at most maxRetries times;
\* while fewer attempts failed and a Call Record is stored, a failing attempt
\* waits and tries again, and the attempt after maxRetries failures ends the
\* send whether it fails or not.
C27_AtMostFourAttempts ==
    \A i \in Slots :
        procs[i].pc = "si_backoff" =>
            LET r == attemptSend(Resumed(i), i, TRUE, "throw") IN
            /\ procs[i].n >= 1 /\ procs[i].n <= maxRetries
            /\ procs[i].n < maxRetries /\ HasCall(St) =>
                   r.procs[i].pc = "si_backoff" /\ r.procs[i].n = procs[i].n + 1
            /\ procs[i].n = maxRetries => r.procs[i] = Idle
            /\ r.out = <<>>

\* a send has failed maxRetries times and waits for its last attempt
C27_Witness ==
    \E i \in Slots :
        /\ procs[i].pc = "si_backoff" /\ procs[i].n = maxRetries /\ HasCall(St)
        /\ attemptSend(Resumed(i), i, TRUE, "throw").procs[i] = Idle

\* C28: for one call the call-start notification is sent at most once: once
\* it was sent for the call of the Call Record, no later change of the
\* connectivity of the handle sends another.
C28_CallStartSentOnce ==
    /\ HasCall(St) /\ currentCall.id \in callStarted
    /\ Live(St, peerConnection) /\ CurPc(St).local # None /\ CurPc(St).remote # None
    => \A st \in IceNext(CurPc(St).ice) :
           Sent(oniceconnectionstatechange([St EXCEPT !.pcs[peerConnection].ice = st]),
                "call-start") = 0

\* the client is idle in snapshot r
IdleAfter(r) ==
    /\ r.currentCall = NoCall /\ r.peerConnection = 0
    /\ ~r.localStream /\ r.currentCallId = 0

\* C29: every failure path ends in cleanup and leaves the client idle: once a
\* failure of startCall (a busy target included), handleIncomingCall,
\* acceptCall, handleOffer or handleAnswer has been handled, the Call Record,
\* the handle, the local stream and the current call id are absent.
C29_FailureEndsIdle ==
    \A i \in Slots :
        /\ procs[i].pc = "sc_fetch" =>
               \A r \in {"busy", "failure"}, id \in CallIds, st \in ResponseStatuses :
                   IdleAfter(startCall_fetch(Resumed(i), i, r, id, st))
        /\ procs[i].pc = "in_media" =>
               IdleAfter(handleIncomingCall_media(Resumed(i), i, "fail"))
        /\ procs[i].pc = "ac_createAnswer" =>
               IdleAfter(acceptCall_createAnswer(Resumed(i), i, "fail"))
        /\ procs[i].pc = "ho_setRemote" =>
               IdleAfter(handleOffer_setRemote(Resumed(i), i, procs[i].h, "fail"))
        /\ procs[i].pc = "ha_setRemote" =>
               IdleAfter(handleAnswer_setRemote(Resumed(i), i, procs[i].h, "fail"))

\* the run that ends in snapshot r raised no uncaught error, sent nothing and
\* applied no description and no candidate to any handle
Harmless(r) ==
    /\ ~r.err /\ r.out = <<>>
    /\ \A h \in Handles :
           /\ r.pcs[h].remote = pcs[h].remote /\ r.pcs[h].local = pcs[h].local
           /\ r.pcs[h].cands = pcs[h].cands

\* C30: when cleanup or a handle rebuild ran while handleOffer, acceptCall, the
\* deferred-candidate timer or the candidate-gathering poll was suspended, the
\* suspended step, once resumed, raises no uncaught error, applies nothing to
\* any handle and sends no message.
C30_ResumeAfterTeardownHarmless ==
    /\ \A c \in Cands :
           candTimers[c] > 0 /\ ~HasPc(St) => Harmless(CandTimerFire(Begin, 0, c))
    /\ \A i \in Slots :
           LET p == procs[i] IN
           /\ p.pc = "ho_gather" /\ ~HasPc(St) => Harmless(handleOffer_send(Resumed(i), i))
           /\ p.pc = "ho_setRemote" /\ ~Live(St, p.h) =>
                  \A res \in Outcomes(St, p.h, CanSetRemote(St, p.h, "offer"), TRUE) :
                      Harmless(handleOffer_setRemote(Resumed(i), i, p.h, res))
           /\ p.pc = "ho_createAnswer" /\ ~Live(St, p.h) =>
                  \A res \in Outcomes(St, p.h, CanCreateAnswer(St, p.h), FALSE) :
                      Harmless(handleOffer_createAnswer(Resumed(i), i, res))
           /\ p.pc = "ho_setLocal" /\ ~Live(St, p.h) =>
                  \A res \in Outcomes(St, p.h, CanSetLocal(St, p.h, "answer"), FALSE) :
                      Harmless(handleOffer_setLocal(Resumed(i), i, p.h, res))
           /\ p.pc = "ac_createAnswer" /\ ~Live(St, p.h) =>
                  \A res \in Outcomes(St, p.h, CanCreateAnswer(St, p.h), FALSE) :
                      Harmless(acceptCall_createAnswer(Resumed(i), i, res))
           /\ p.pc = "ac_setLocal" /\ ~Live(St, p.h) =>
                  \A res \in Outcomes(St, p.h, CanSetLocal(St, p.h, "answer"), FALSE) :
                      Harmless(acceptCall_setLocal(Resumed(i), i, p.h, res))

\* C31: a call-rejected, call-ended, call-error or user-disconnected event for
\* a call id other than that of the Call Record (or with no Call Record)
\* leaves the Call Record, the handle, the auto-reject timers and the pending
\* entries as they are.  (The handlers take no call id: what they do is the
\* same for every id the event carries.)
C31_StaleTeardownAbsorbed ==
    \A id \in AllCallIds :
        id # currentCall.id =>
            \A r \in {handleCallRejected(St), handleCallEnded(St)} :
                /\ r.currentCall = currentCall
                /\ r.peerConnection = peerConnection /\ r.pcs = pcs
                /\ HasCall(St) =>
                       /\ r.timers[currentCall.id] = timers[currentCall.id]
                       /\ r.pendingOffers[currentCall.id] = pendingOffers[currentCall.id]
                       /\ r.pendingCandidates[currentCall.id]
                              = pendingCandidates[currentCall.id]

\* C32: an answer is created on and sent from a handle only after the offer
\* was applied to that handle: a handle with a local answer has the remote
\* offer, and when handleOffer or acceptCall sends an answer the current
\* handle, whose description handleOffer sends, has the offer applied.
C32_AnswerOnlyAfterOffer ==
    /\ \A h \in Handles : pcs[h].local = "answer" => pcs[h].remote = "offer"
    /\ \A i \in Slots :
           /\ procs[i].pc = "ho_gather" =>
                  LET r == handleOffer_send(Resumed(i), i) IN
                  Sent(r, "answer") > 0 => HasPc(St) /\ CurPc(St).remote = "offer"
           /\ procs[i].pc = "ac_setLocal" =>
                  \A res \in Outcomes(St, procs[i].h, CanSetLocal(St, procs[i].h, "answer"), FALSE) :
                      LET r == acceptCall_setLocal(Resumed(i), i, procs[i].h, res) IN
                      Sent(r, "answer") > 0 => pcs[procs[i].h].remote = "offer"

\* the results of the handleOffer suspended in slot i when the step it waits
\* for fails (the awaited promise rejects, or the handle or the Call Record it
\* reads next is gone)
FailedStep(i) ==
    LET p == procs[i]
        s == Resumed(i)
    IN  IF p.pc = "ho_setRemote"
        THEN {handleOffer_setRemote(s, i, p.h, res) :
                  res \in Outcomes(St, p.h, CanSetRemote(St, p.h, "offer"), TRUE) \cap {"fail"}}
        ELSE IF p.pc = "ho_settle"
        THEN {handleOffer_settle(s, i) : x \in {y \in {1} : ~HasPc(St)}}
        ELSE IF p.pc = "ho_createAnswer"
        THEN {handleOffer_createAnswer(s, i, res) :
                  res \in {o \in Outcomes(St, p.h, CanCreateAnswer(St, p.h), FALSE) :
                               o = "fail" \/ (o = "ok" /\ ~HasPc(St))}}
        ELSE IF p.pc = "ho_setLocal"
        THEN {handleOffer_setLocal(s, i, p.h, res) :
                  res \in {o \in Outcomes(St, p.h, CanSetLocal(St, p.h, "answer"), FALSE) :
                               o = "fail" \/ (o = "ok" /\ ~HasPc(St))}}
        ELSE IF p.pc = "ho_gather"
        THEN {handleOffer_send(s, i) : x \in {y \in {1} : ~HasPc(St) \/ ~HasCall(St)}}
        ELSE {}

C34_GatherPollingStops == (polls > 0) ~> (polls = 0)

\* no handler is suspended: the client is between operations
Quiescent == \A i \in 0..MaxProcs : procs[i].pc = "idle"

\* C35: a live negotiation handle exists only while a Call Record exists: with
\* no Call Record (and, so that a call attempt on its way to its record is not
\* counted, no handler suspended) there is no current handle and no live one.
C35_HandleOnlyWithCallRecord ==
    (~HasCall(St) /\ Quiescent) => (peerConnection = 0 /\ \A h \in Handles : ~Live(St, h))

C37_PendingOfferNeverDropped ==
    \A id \in CallIds :
        pendingOffers[id] # None =>
            LET r == OnProcessPendingOffer(Begin, 0, id) IN
            r.pendingOffers[id] = None => r.ho # {}

\* the messages of one type a run has sent carry the call id
SentOnlyFor(r, type, id) ==
    \A k \in 1..Len(r.out) : r.out[k].type = type => r.out[k].callId = id

\* C38: every answer and ice-candidate message carries the id of the call the
\* step was started for, also when the Call Record was cleared or replaced
\* while handleOffer or sendIceCandidate was waiting.
C38_MessagesCarryOwnCallId ==
    \A i \in Slots :
        LET p == procs[i] IN
        /\ p.pc = "ho_gather" =>
               SentOnlyFor(handleOffer_send(Resumed(i), i), "answer", p.callId)
        /\ p.pc = "si_connect" =>
               \A res \in SendResults :
                   SentOnlyFor(attemptSend_emit(Resumed(i), i, res), "ice-candidate", p.callId)
        /\ p.pc = "si_backoff" =>
               \A connected \in BOOLEAN, res \in SendResults :
                   SentOnlyFor(attemptSend(Resumed(i), i, connected, res), "ice-candidate",
                               p.callId)

\* C39: an inbound answer or candidate is applied to the current handle only
\* if its call id is the id of the current Call Record: with a Call Record, an
\* answer event for another call id starts no setRemoteDescription that the
\* handle accepts, and a call-accepted event for another call id starts no
\* addIceCandidate of its pending candidates that the handle accepts.
C39_InboundAppliedOnlyForCurrentCall ==
    \A id \in AllCallIds :
        (HasCall(St) /\ id # currentCall.id) =>
            /\ LET r == handleAnswer(Begin, 0) IN
               ~(r.procs[0].pc = "ha_setRemote" /\ CanSetRemote(r, r.procs[0].h, "answer"))
            /\ LET r == handleCallAccepted(Begin, 0, id) IN
               ~(r.procs[0].pc = "ic_add" /\ CanAddIce(r, r.procs[0].h))

\* C40: between operations the signaling layer's current call id and the Call
\* Record agree: the current call id is null exactly when there is no Call
\* Record, and otherwise is the record's id.
C40_CurrentCallIdAgrees ==
    Quiescent =>
        /\ currentCallId = 0 <=> ~HasCall(St)
        /\ HasCall(St) => currentCallId = currentCall.id

====
